---- MODULE Spec2Model ----
(***************************************************************************)
(* Job scheduler and pipeline executor of the photo restoration server:    *)
(* packages/core/queue.js (processNext, processJob), routes/jobs.js,       *)
(* routes/settings.js, python.js (runPythonStep) and heartbeat.js.         *)
(*                                                                         *)
(* The server is a single-threaded event loop.  One action of this model   *)
(* is one macrotask (an HTTP handler, a timer callback, or the exit        *)
(* callback of a worker process) together with every microtask it queues:  *)
(* the continuation of an awaiting processJob and the                      *)
(* `.then(() => processNext())` callbacks of the pipelines that resolved.  *)
(* Indices into `steps` are 0-based as in the source.                      *)
(***************************************************************************)
EXTENDS Integers, Sequences, FiniteSets, TLC

\* ---------------------------------------------------------------- bounds
\* the jobs created in the specifications that run pipelines
MaxJobs == 2
\* the jobs created in the specification of the pending queue
MaxQueue == 3
\* the jobs created in the specification of a single pipeline
MaxPipelineJobs == 1
\* the results a job may hold when retry and skip are still explored
MaxResults == 3
\* the longest id list of a reorder request
MaxListLen == 3

\* ---------------------------------------------------- program constants
MAX_CONCURRENT_LIMIT == 2
HEARTBEAT_TIMEOUT_MS == 10000
HEARTBEAT_TICK_MS == 5000

\* ------------------------------------------------------ null-like values
Null == "null"
Undefined == 0 - 2
NullPath == [dir |-> "null"]
NullUrl == [root |-> "null"]

PhotoIds == {"p1"}
JobIds == 1 .. MaxJobs
QueueIds == 1 .. MaxQueue

VARIABLES
    jobs,           \* storage.js `jobs`: the job records, in insertion order
    photos,         \* storage.js `photos`: ids of the photos in the store
    runningProcs,   \* storage.js `runningProcs`: job ids holding a handle
    workers,        \* per job: the spawned child process and the pipeline
                    \* awaiting it (loop index, input and output path)
    maxConcurrent,  \* queue.js `maxConcurrent`
    elapsedMs,      \* Date.now() - lastHeartbeat, capped at the timeout
    lastOp,         \* history: the macrotask that produced this state
    dispatchLog,    \* history: the processNext runs of that macrotask
    submitted,      \* history: per job, what it held when input was last
                    \* submitted to it (kept until the job is skipped,
                    \* rewound, completed or cancelled)
    resultsDirEnv   \* config.js 25: process.env.RESULTS_DIR names a directory
                    \* other than ROOT/results (read once, at start)

vars == <<jobs, photos, runningProcs, workers, maxConcurrent, elapsedMs,
          lastOp, dispatchLog, submitted, resultsDirEnv>>

progVars == <<jobs, photos, runningProcs, workers, maxConcurrent, elapsedMs>>

\* -------------------------------------------------------- stage registry
ALL_STEPS == {"crop", "inpaint", "spot_removal", "scratch_removal",
              "face_restore", "colorize", "upscale", "online_restore"}

disabled(s) == s = "online_restore"

STEPS == {s \in ALL_STEPS : ~disabled(s)}

manual(s) == s \in {"crop", "inpaint"}

MANUAL_STEPS == {s \in STEPS : manual(s)}

prefix(s) ==
    CASE s = "crop" -> "CROP"
      [] s = "inpaint" -> "INPAINT"
      [] s = "spot_removal" -> "SPOTS"
      [] s = "scratch_removal" -> "REST"
      [] s = "face_restore" -> "FACE"
      [] s = "colorize" -> "COL"
      [] s = "upscale" -> "UPS"
      [] OTHER -> "CLOUD"

hasModels(s) == s \in {"spot_removal", "scratch_removal", "colorize", "upscale"}

defaultModel(s) ==
    CASE s = "spot_removal" -> "lama"
      [] s = "scratch_removal" -> "lama"
      [] s = "colorize" -> "ddcolor"
      [] s = "upscale" -> "compact"
      [] OTHER -> Null

\* crop.js / inpaint.js needsInput; stages without the hook never pause
needsInput(s, job) ==
    CASE s = "crop" -> job.cropRect = Null
      [] s = "inpaint" -> job.maskPath = Null
      [] OTHER -> FALSE

\* crop.js / inpaint.js onComplete
onComplete(s, job) ==
    CASE s = "crop" -> [job EXCEPT !.cropRect = Null]
      [] s = "inpaint" -> [job EXCEPT !.maskPath = Null]
      [] OTHER -> job

\* ------------------------------------------------------ paths and URLs
UploadPath(photoId) == [dir |-> "UPLOADS_DIR", name |-> [photo |-> photoId]]

OutputName(j, s) == [job |-> j, prefix |-> prefix(s)]

OutputPath(j, s) == [dir |-> "RESULTS_DIR", name |-> OutputName(j, s)]

OutputUrl(j, s) == [root |-> "/results", name |-> OutputName(j, s)]

getUrlForPath(p) ==
    IF p.dir = "RESULTS_DIR"
    THEN [root |-> "/results", name |-> p.name]
    ELSE [root |-> "/uploads", name |-> p.name]

\* Math.round((i / n) * 100)
Progress(i, n) == (200 * i + n) \div (2 * n)

\* ---------------------------------------------------------- job records
\* `options || {}`: no stage carries a model choice
NoOptions == [s \in STEPS |-> Null]

NewJob(photoId, steps, maskPath, cropRect, priority) ==
    [photoId |-> photoId, steps |-> steps, options |-> NoOptions,
     maskPath |-> maskPath, cropRect |-> cropRect,
     status |-> "pending", progress |-> 0, result |-> NullUrl,
     stepResults |-> <<>>, priority |-> priority,
     resumeFromStep |-> Undefined, currentStep |-> Null,
     waitingStep |-> Null, waitingImage |-> NullUrl,
     currentInputPath |-> NullPath, error |-> Null,
     failedStep |-> Null, failedStepIndex |-> Undefined]

\* no child process; `over` (history) tells of a process that it was
\* spawned while another process of the same job had not exited
NoWorker == [st |-> "none", i |-> Undefined, input |-> NullPath,
             output |-> NullPath, model |-> Null, over |-> FALSE]

\* job.resumeFromStep || 0
ResumeIndex(job) == IF job.resumeFromStep = Undefined THEN 0 ELSE job.resumeFromStep

\* history records: what a paused job holds when its input arrives
NoSnapshot == [at |-> Undefined]

Snapshot(job) ==
    [at |-> ResumeIndex(job), waitingStep |-> job.waitingStep,
     waitingImage |-> job.waitingImage,
     currentInputPath |-> job.currentInputPath,
     stepResults |-> job.stepResults]

\* job.steps.indexOf(s), -1 when absent
IndexOf(steps, s) ==
    IF \E k \in 1 .. Len(steps) : steps[k] = s
    THEN (CHOOSE k \in 1 .. Len(steps) :
              steps[k] = s /\ \A m \in 1 .. (k - 1) : steps[m] # s) - 1
    ELSE 0 - 1

\* --------------------------------------------------------------- queue.js
\* The machine state threaded through one macrotask: M.thens counts the
\* queued `.then(() => processNext())` microtasks of resolved pipelines.
Machine ==
    [jobs |-> jobs, procs |-> runningProcs, workers |-> workers,
     mc |-> maxConcurrent, thens |-> 0, log |-> <<>>, snap |-> submitted]

\* variant: only the first stage is looked at
jobHasManualStepsFirstOnly(job) ==
    Len(job.steps) > 0 /\ job.steps[1] \in MANUAL_STEPS

\* queue.js 18-20
jobHasManualSteps(job) == \E k \in 1 .. Len(job.steps) : job.steps[k] \in MANUAL_STEPS

jobWillPauseImmediately(job) ==
    LET idx == ResumeIndex(job)
    IN  /\ idx < Len(job.steps)
        /\ job.steps[idx + 1] \in STEPS
        /\ needsInput(job.steps[idx + 1], job)

\* variant: the completion leaves progress where the last stage put it
CompleteKeepsProgress(job) ==
    [job EXCEPT !.status = "completed",
                !.currentStep = Null, !.waitingStep = Null,
                !.waitingImage = NullUrl,
                !.result = IF Len(job.stepResults) > 0
                           THEN job.stepResults[Len(job.stepResults)].result
                           ELSE NullUrl]

\* queue.js 123-131: the pipeline ran off the end of `steps`
Complete(job) ==
    [job EXCEPT !.status = "completed", !.progress = 100,
                !.currentStep = Null, !.waitingStep = Null,
                !.waitingImage = NullUrl,
                !.result = IF Len(job.stepResults) > 0
                           THEN job.stepResults[Len(job.stepResults)].result
                           ELSE NullUrl]

\* variant: the pause does not record the index it stopped at
PauseKeepsIndex(job, i, step, currentInput) ==
    [job EXCEPT !.status = "waiting_input", !.waitingStep = step,
                !.currentInputPath = currentInput,
                !.waitingImage = getUrlForPath(currentInput),
                !.progress = Progress(i, Len(job.steps))]

\* queue.js 73-82: pause at a manual stage that needs input
Pause(job, i, step, currentInput) ==
    [job EXCEPT !.status = "waiting_input", !.waitingStep = step,
                !.resumeFromStep = i, !.currentInputPath = currentInput,
                !.waitingImage = getUrlForPath(currentInput),
                !.progress = Progress(i, Len(job.steps))]

\* queue.js 94-96
SelectedModel(job, step) ==
    IF hasModels(step)
    THEN IF job.options[step] # Null THEN job.options[step] ELSE defaultModel(step)
    ELSE Null

\* python.js runPythonStep 49-67, the synchronous part: spawn and register
runPythonStep(M, j, i, inputPath, outputPath, model) ==
    [M EXCEPT !.procs = @ \cup {j},
              !.workers[j] = [st |-> "running", i |-> i, input |-> inputPath,
                              output |-> outputPath, model |-> model,
                              over |-> M.workers[j].st # "none"]]

\* queue.js 68-121: the for loop from index i up to the next suspension
\* point (a pause, the await of a worker) or the end of the pipeline
RECURSIVE RunFrom(_, _, _, _)
RunFrom(M, j, i, currentInput) ==
    LET job == M.jobs[j]
    IN  IF i >= Len(job.steps)
        THEN [M EXCEPT !.jobs[j] = Complete(job), !.thens = @ + 1]
        ELSE LET step == job.steps[i + 1]
             IN  IF step \notin STEPS
                 THEN RunFrom(M, j, i + 1, currentInput)
                 ELSE IF needsInput(step, job)
                 THEN [M EXCEPT !.jobs[j] = Pause(job, i, step, currentInput),
                                !.thens = @ + 1]
                 ELSE LET started ==
                              [job EXCEPT !.currentStep = step,
                                          !.progress = Progress(i, Len(job.steps))]
                          M1 == [M EXCEPT !.jobs[j] = started]
                      IN  IF job.status = "cancelled"
                          THEN [M1 EXCEPT !.thens = @ + 1]
                          ELSE runPythonStep(M1, j, i, currentInput,
                                             OutputPath(j, step),
                                             SelectedModel(job, step))

\* queue.js 53-65: processJob up to its first suspension point
processJob(M, j) ==
    LET job == [M.jobs[j] EXCEPT !.status = "processing"]
        M1 == [M EXCEPT !.jobs[j] = job]
    IN  IF job.photoId \notin photos
        THEN [M1 EXCEPT !.jobs[j].status = "failed", !.thens = @ + 1]
        ELSE RunFrom(M1, j, ResumeIndex(job),
                     IF job.currentInputPath # NullPath
                     THEN job.currentInputPath
                     ELSE UploadPath(job.photoId))

\* variant: the candidates are walked in insertion order
SortByInsertion(js, ids) ==
    LET rank(a) == Cardinality({b \in ids : b < a})
    IN  [n \in 1 .. Cardinality(ids) |-> CHOOSE a \in ids : rank(a) = n - 1]

\* Array.prototype.sort by priority: stable, ties keep insertion order
SortByPriority(js, ids) ==
    LET before(a, b) == \/ js[a].priority < js[b].priority
                        \/ js[a].priority = js[b].priority /\ a < b
        rank(a) == Cardinality({b \in ids : before(b, a)})
    IN  [n \in 1 .. Cardinality(ids) |-> CHOOSE a \in ids : rank(a) = n - 1]

\* variant: the slot test off by one
SlotFreeInclusive(running, slotsUsed, mc) == running + slotsUsed <= mc

\* queue.js 47: the slot test of a candidate that will not pause
SlotFree(running, slotsUsed, mc) == running + slotsUsed < mc

\* queue.js 43-50: the walk over the sorted candidates
RECURSIVE DispatchLoop(_, _, _, _, _, _)
DispatchLoop(M, pending, k, slotsUsed, running, started) ==
    IF k > Len(pending)
    THEN [m |-> M, started |-> started]
    ELSE LET j == pending[k]
             willPause == jobWillPauseImmediately(M.jobs[j])
         IN  IF ~willPause /\ ~SlotFree(running, slotsUsed, M.mc)
             THEN DispatchLoop(M, pending, k + 1, slotsUsed, running, started)
             ELSE DispatchLoop(processJob(M, j), pending, k + 1,
                               IF willPause THEN slotsUsed ELSE slotsUsed + 1,
                               running, Append(started, j))

\* variant: no gate on candidates with manual steps
CandidateUngated(js, j, hasWaitingManual) == js[j].status = "pending"

\* queue.js 36: the gate on candidates with manual steps
Candidate(js, j, hasWaitingManual) ==
    /\ js[j].status = "pending"
    /\ (~hasWaitingManual \/ ~jobHasManualSteps(js[j]))

\* queue.js 31-51
processNext(M) ==
    LET ids == DOMAIN M.jobs
        running == Cardinality({j \in ids : M.jobs[j].status = "processing"})
        hasWaitingManual == \E j \in ids : M.jobs[j].status = "waiting_input"
        pending == SortByPriority(M.jobs,
                       {j \in ids : Candidate(M.jobs, j, hasWaitingManual)})
        R == DispatchLoop(M, pending, 1, 0, running, <<>>)
    IN  [R.m EXCEPT !.log = Append(@, [pre |-> M.jobs, mc |-> M.mc,
                                         started |-> R.started,
                                         post |-> R.m.jobs])]

\* variant: the resolved pipelines start no dispatch
DrainDropped(M) == [M EXCEPT !.thens = 0]

\* the microtask queue: one processNext per resolved pipeline
RECURSIVE Drain(_)
Drain(M) ==
    IF M.thens = 0 THEN M
    ELSE Drain(processNext([M EXCEPT !.thens = @ - 1]))

\* commit the result of a macrotask
Commit(M, op) ==
    /\ jobs' = M.jobs
    /\ runningProcs' = M.procs
    /\ workers' = M.workers
    /\ maxConcurrent' = M.mc
    /\ dispatchLog' = M.log
    /\ submitted' = [j \in QueueIds |->
                         IF j \in DOMAIN M.jobs
                            /\ M.jobs[j].status \in {"processing", "waiting_input",
                                                      "failed"}
                         THEN M.snap[j] ELSE NoSnapshot]
    /\ lastOp' = op

\* ------------------------------------------------------ worker callback
\* variant: no cancellation checkpoint after the worker returned
CancelledAfterAwaitIgnored(job) == FALSE

\* queue.js 107: the cancellation checkpoint after the await
CancelledAfterAwait(job) == job.status = "cancelled"

\* variant: the catch block does not look at the status
CancelledInCatchIgnored(job) == FALSE

\* queue.js 133: the cancellation test of the catch block
CancelledInCatch(job) == job.status = "cancelled"

\* variant: no dispatch between two stages of a job
StageDoneWithoutDispatch(M, j, w) ==
    LET job == M.jobs[j]
        step == job.steps[w.i + 1]
    IN  IF CancelledAfterAwait(job)
        THEN [M EXCEPT !.thens = @ + 1]
        ELSE LET done == [onComplete(step, job) EXCEPT
                              !.stepResults = Append(@, [step |-> step,
                                                         result |-> OutputUrl(j, step)]),
                              !.currentInputPath = w.output]
             IN  RunFrom([M EXCEPT !.jobs[j] = done], j, w.i + 1, w.output)

\* queue.js 106-120 after a successful await, then the loop goes on
StageDone(M, j, w) ==
    LET job == M.jobs[j]
        step == job.steps[w.i + 1]
    IN  IF CancelledAfterAwait(job)
        THEN [M EXCEPT !.thens = @ + 1]
        ELSE LET done == [onComplete(step, job) EXCEPT
                              !.stepResults = Append(@, [step |-> step,
                                                         result |-> OutputUrl(j, step)]),
                              !.currentInputPath = w.output]
                 M1 == processNext([M EXCEPT !.jobs[j] = done])
             IN  RunFrom(M1, j, w.i + 1, w.output)

\* queue.js 132-144: the catch block
StageFailed(M, j) ==
    LET job == M.jobs[j]
    IN  IF CancelledInCatch(job)
        THEN [M EXCEPT !.jobs[j].currentStep = Null, !.thens = @ + 1]
        ELSE [M EXCEPT !.jobs[j] =
                  [job EXCEPT !.status = "failed", !.error = "err",
                              !.failedStep = job.currentStep,
                              !.failedStepIndex = IndexOf(job.steps, job.currentStep),
                              !.currentStep = Null],
                       !.thens = @ + 1]

\* python.js 55-64: the exit callback of the child process, and the
\* continuation of the pipeline that awaited it.  lastOp keeps the loop
\* index and the input of the worker that exited.
WorkerExit(j, ok) ==
    /\ j \in DOMAIN jobs
    /\ workers[j].st # "none"
    /\ LET w == workers[j]
           M0 == [Machine EXCEPT !.procs = @ \ {j}, !.workers[j] = NoWorker]
           M1 == IF ok THEN StageDone(M0, j, w) ELSE StageFailed(M0, j)
       IN  Commit(Drain(M1), [op |-> IF ok THEN "workerOk" ELSE "workerErr",
                               job |-> j, ok |-> TRUE,
                               at |-> w.i, input |-> w.input])
    /\ UNCHANGED <<photos, elapsedMs, resultsDirEnv>>

\* ------------------------------------------------------- routes/jobs.js
\* variant: the keys of the request are taken as they come
ValidStepsUnfiltered(steps) == steps

\* routes/jobs.js 67: steps.filter((s) => STEPS[s])
ValidSteps(steps) == SelectSeq(steps, LAMBDA s : s \in STEPS)

\* Date.now() at creation: later jobs never sort before earlier ones, and
\* every creation time is above any index written by reorder
DateNow(M) == MaxListLen + Len(M.jobs)

\* routes/jobs.js 53-115 for a request that names one photo.  A request
\* without a registered stage is answered 400; one whose photo is not in
\* the store is answered 200 with an empty list.  lastOp keeps the photo
\* id and the steps of the request and the status of the response.
CreateJob(photoId, steps, withMask, withCrop) ==
    /\ Len(jobs) < MaxQueue
    /\ LET validSteps == ValidSteps(steps)
           op == [op |-> "create", job |-> Len(jobs) + 1, ok |-> TRUE,
                  photo |-> photoId, steps |-> steps,
                  http |-> IF Len(validSteps) = 0 THEN 400 ELSE 200]
       IN  IF Len(validSteps) = 0 \/ photoId \notin photos
           THEN /\ UNCHANGED <<jobs, runningProcs, workers, maxConcurrent, submitted>>
                /\ dispatchLog' = <<>>
                /\ lastOp' = [op EXCEPT !.ok = FALSE]
           ELSE LET maskPath == IF withMask /\ IndexOf(validSteps, "inpaint") >= 0
                                THEN "mask" ELSE Null
                    cropRect == IF withCrop /\ IndexOf(validSteps, "crop") >= 0
                                THEN "rect" ELSE Null
                    job == NewJob(photoId, validSteps, maskPath, cropRect,
                                  DateNow(Machine))
                    M1 == processNext([Machine EXCEPT !.jobs = Append(@, job)])
                IN  Commit(Drain(M1), op)
    /\ UNCHANGED <<photos, elapsedMs, resultsDirEnv>>

\* routes/jobs.js 154-178; mask, cropRect: the body carries the value.
\* lastOp keeps both.
SubmitInput(j, mask, cropRect) ==
    /\ LET op == [op |-> "submitInput", job |-> j, ok |-> TRUE,
                  mask |-> mask, cropRect |-> cropRect]
       IN  IF j \notin DOMAIN jobs \/ jobs[j].status # "waiting_input"
           THEN /\ UNCHANGED <<jobs, runningProcs, workers, maxConcurrent, submitted>>
                /\ dispatchLog' = <<>>
                /\ lastOp' = [op EXCEPT !.ok = FALSE]
           ELSE LET job == jobs[j]
                    j1 == IF job.waitingStep = "inpaint" /\ mask
                          THEN [job EXCEPT !.maskPath = "mask"] ELSE job
                    j2 == IF job.waitingStep = "crop" /\ cropRect
                          THEN [j1 EXCEPT !.cropRect = "rect"] ELSE j1
                    j3 == [j2 EXCEPT !.waitingStep = Null, !.waitingImage = NullUrl]
                IN  Commit(Drain(processJob([Machine EXCEPT !.jobs[j] = j3,
                                                            !.snap[j] = Snapshot(job)],
                                            j)), op)
    /\ UNCHANGED <<photos, elapsedMs, resultsDirEnv>>

\* variant: the index is left where the job waits
SkipIndexSame(job) == ResumeIndex(job)

\* routes/jobs.js 188: (job.resumeFromStep || 0) + 1
SkipIndex(job) == ResumeIndex(job) + 1

\* routes/jobs.js 182-193
SkipStep(j) ==
    /\ LET op == [op |-> "skipStep", job |-> j, ok |-> TRUE]
       IN  IF j \notin DOMAIN jobs \/ jobs[j].status # "waiting_input"
           THEN /\ UNCHANGED <<jobs, runningProcs, workers, maxConcurrent, submitted>>
                /\ dispatchLog' = <<>>
                /\ lastOp' = [op EXCEPT !.ok = FALSE]
           ELSE LET job == [jobs[j] EXCEPT !.resumeFromStep = SkipIndex(jobs[j]),
                                           !.waitingStep = Null,
                                           !.waitingImage = NullUrl]
                IN  Commit(Drain(processJob([Machine EXCEPT !.jobs[j] = job,
                                                            !.snap[j] = NoSnapshot],
                                            j)), op)
    /\ UNCHANGED <<photos, elapsedMs, resultsDirEnv>>

\* variant: the first manual index below currentIdx, or -1
BackTargetFirst(job) ==
    LET currentIdx == ResumeIndex(job)
        cands == {i \in 0 .. (currentIdx - 1) : job.steps[i + 1] \in MANUAL_STEPS}
    IN  IF cands = {} THEN 0 - 1
        ELSE CHOOSE i \in cands : \A k \in cands : i <= k

\* routes/jobs.js 205-211: the greatest manual index below currentIdx, or -1
BackTarget(job) ==
    LET currentIdx == ResumeIndex(job)
        cands == {i \in 0 .. (currentIdx - 1) : job.steps[i + 1] \in MANUAL_STEPS}
    IN  IF cands = {} THEN 0 - 1
        ELSE CHOOSE i \in cands : \A k \in cands : k <= i

\* routes/jobs.js 233: path.join(ROOT, lastResult.result.replace(/^\//, '')).
\* ROOT/results is RESULTS_DIR unless the environment names another
\* directory (config.js 25, Dockerfile 39-40); a result URL starts with
\* /results (queue.js 113)
PathFromUrl(url) ==
    [dir |-> IF resultsDirEnv THEN "ROOT/results" ELSE "RESULTS_DIR",
     name |-> url.name]

\* routes/jobs.js 217-241: the mutation of a rewind to targetIdx
Rewind(job, targetIdx) ==
    LET clearedCrop == \E i \in targetIdx .. (Len(job.steps) - 1) :
                           job.steps[i + 1] = "crop"
        clearedMask == \E i \in targetIdx .. (Len(job.steps) - 1) :
                           job.steps[i + 1] = "inpaint"
        results == SubSeq(job.stepResults, 1,
                          IF targetIdx < Len(job.stepResults)
                          THEN targetIdx ELSE Len(job.stepResults))
    IN  [job EXCEPT !.cropRect = IF clearedCrop THEN Null ELSE @,
                    !.maskPath = IF clearedMask THEN Null ELSE @,
                    !.stepResults = results,
                    !.currentInputPath =
                        IF Len(results) > 0
                        THEN PathFromUrl(results[Len(results)].result)
                        ELSE IF job.photoId \in photos
                             THEN UploadPath(job.photoId) ELSE NullPath,
                    !.resumeFromStep = targetIdx,
                    !.waitingStep = Null,
                    !.waitingImage = NullUrl]

\* routes/jobs.js 197-244
Back(j) ==
    /\ LET op == [op |-> "back", job |-> j, ok |-> TRUE]
       IN  IF \/ j \notin DOMAIN jobs
              \/ jobs[j].status # "waiting_input"
              \/ BackTarget(jobs[j]) < 0
           THEN /\ UNCHANGED <<jobs, runningProcs, workers, maxConcurrent, submitted>>
                /\ dispatchLog' = <<>>
                /\ lastOp' = [op EXCEPT !.ok = FALSE]
           ELSE LET job == Rewind(jobs[j], BackTarget(jobs[j]))
                IN  Commit(Drain(processJob([Machine EXCEPT !.jobs[j] = job,
                                                            !.snap[j] = NoSnapshot],
                                            j)), op)
    /\ UNCHANGED <<photos, elapsedMs, resultsDirEnv>>

\* the model keys a retry request may carry (Null: none)
RetryModels == {Null, "opencv"}

\* variant: retry also accepts a job that is processing
RetryableWithProcessing(status) == status \in {"failed", "processing"}

\* routes/jobs.js 250: the status retry accepts
Retryable(status) == status = "failed"

\* routes/jobs.js 248-267; lastOp keeps the model of the request
Retry(j, model) ==
    /\ LET op == [op |-> "retry", job |-> j, ok |-> TRUE, model |-> model]
       IN  IF j \notin DOMAIN jobs \/ ~Retryable(jobs[j].status)
           THEN /\ UNCHANGED <<jobs, runningProcs, workers, maxConcurrent, submitted>>
                /\ dispatchLog' = <<>>
                /\ lastOp' = [op EXCEPT !.ok = FALSE]
           ELSE LET job == jobs[j]
                    j1 == IF model # Null /\ job.failedStep # Null
                          THEN [job EXCEPT !.options[job.failedStep] = model]
                          ELSE job
                    j2 == [j1 EXCEPT !.resumeFromStep =
                                         IF job.failedStepIndex = Undefined
                                         THEN 0 ELSE job.failedStepIndex,
                                     !.status = "processing",
                                     !.error = Null,
                                     !.failedStep = Null,
                                     !.failedStepIndex = Undefined]
                IN  Commit(Drain(processJob([Machine EXCEPT !.jobs[j] = j2], j)), op)
    /\ UNCHANGED <<photos, elapsedMs, resultsDirEnv>>

\* routes/jobs.js 271-294
SkipFailed(j) ==
    /\ LET op == [op |-> "skipFailed", job |-> j, ok |-> TRUE]
       IN  IF j \notin DOMAIN jobs \/ jobs[j].status # "failed"
           THEN /\ UNCHANGED <<jobs, runningProcs, workers, maxConcurrent, submitted>>
                /\ dispatchLog' = <<>>
                /\ lastOp' = [op EXCEPT !.ok = FALSE]
           ELSE LET job == jobs[j]
                    nextIndex == (IF job.failedStepIndex = Undefined
                                  THEN 0 ELSE job.failedStepIndex) + 1
                    j1 == [job EXCEPT !.error = Null, !.failedStep = Null,
                                      !.failedStepIndex = Undefined]
                IN  IF nextIndex >= Len(job.steps)
                    THEN Commit([Machine EXCEPT !.jobs[j] =
                                    [j1 EXCEPT !.status = "completed",
                                               !.progress = 100,
                                               !.result =
                                                   IF Len(j1.stepResults) > 0
                                                   THEN j1.stepResults[Len(j1.stepResults)].result
                                                   ELSE NullUrl]], op)
                    ELSE Commit(Drain(processJob(
                                    [Machine EXCEPT !.jobs[j] =
                                        [j1 EXCEPT !.resumeFromStep = nextIndex,
                                                   !.status = "processing"],
                                             !.snap[j] = NoSnapshot], j)), op)
    /\ UNCHANGED <<photos, elapsedMs, resultsDirEnv>>

\* variant: cancel also accepts failed jobs
CancellableWithFailed(status) ==
    status \in {"pending", "processing", "waiting_input", "failed"}

\* routes/jobs.js 302: the statuses cancel accepts
Cancellable(status) == status \in {"pending", "processing", "waiting_input"}

\* variant: the handle of the signalled worker stays in the table
CancelJobKeepsHandle(M, j) ==
    LET hasProc == j \in M.procs
    IN  [M EXCEPT !.jobs[j] = [@ EXCEPT !.status = "cancelled",
                                        !.currentStep = Null,
                                        !.waitingStep = Null,
                                        !.waitingImage = NullUrl],
                  !.workers[j] = IF hasProc /\ @.st = "running"
                                 THEN [@ EXCEPT !.st = "killed"] ELSE @]

\* routes/jobs.js 307-316 (also 37-45 and heartbeat.js 18-26): mark the job
\* cancelled, signal its worker and drop its handle
CancelJob(M, j) ==
    LET hasProc == j \in M.procs
    IN  [M EXCEPT !.jobs[j] = [@ EXCEPT !.status = "cancelled",
                                        !.currentStep = Null,
                                        !.waitingStep = Null,
                                        !.waitingImage = NullUrl],
                  !.workers[j] = IF hasProc /\ @.st = "running"
                                 THEN [@ EXCEPT !.st = "killed"] ELSE @,
                  !.procs = @ \ {j}]

\* routes/jobs.js 298-320
Cancel(j) ==
    /\ LET op == [op |-> "cancel", job |-> j, ok |-> TRUE]
       IN  IF j \notin DOMAIN jobs \/ ~Cancellable(jobs[j].status)
           THEN /\ UNCHANGED <<jobs, runningProcs, workers, maxConcurrent, submitted>>
                /\ dispatchLog' = <<>>
                /\ lastOp' = [op EXCEPT !.ok = FALSE]
           ELSE Commit(Drain(processNext(CancelJob(Machine, j))), op)
    /\ UNCHANGED <<photos, elapsedMs, resultsDirEnv>>

RECURSIVE CancelEach(_, _)
CancelEach(M, ids) ==
    IF ids = {} THEN M
    ELSE LET j == CHOOSE x \in ids : \A y \in ids : x <= y
         IN  CancelEach(CancelJob(M, j), ids \ {j})

\* routes/jobs.js 32-49
CancelAll ==
    /\ Commit(CancelEach(Machine, {j \in DOMAIN jobs : Cancellable(jobs[j].status)}),
              [op |-> "cancelAll", job |-> 0, ok |-> TRUE])
    /\ UNCHANGED <<photos, elapsedMs, resultsDirEnv>>

\* variant: every job a request lists is given its position
ReorderAppliesToAny(job) == TRUE

\* routes/jobs.js 23: only a pending job takes a new priority
ReorderApplies(job) == job.status = "pending"

\* variant: the position is added to the priority the job has
ReorderPriorityShifted(job, index) == job.priority + index

\* routes/jobs.js 24: job.priority = index
ReorderPriority(job, index) == index

\* routes/jobs.js 21-26: jobIds.forEach((id, index) => ...), from index on
RECURSIVE ReorderFrom(_, _, _)
ReorderFrom(js, jobIds, index) ==
    IF index >= Len(jobIds) THEN js
    ELSE LET id == jobIds[index + 1]
             next == IF id \in DOMAIN js /\ ReorderApplies(js[id])
                     THEN [js EXCEPT ![id].priority = ReorderPriority(js[id], index)]
                     ELSE js
         IN  ReorderFrom(next, jobIds, index + 1)

\* routes/jobs.js 17-28; isArray: Array.isArray(req.body.jobIds).  The
\* handler starts no dispatch.  lastOp keeps the list of the request and
\* whether it repeats the request handled just before.
Reorder(isArray, jobIds) ==
    /\ jobs' = IF isArray THEN ReorderFrom(jobs, jobIds, 0) ELSE jobs
    /\ lastOp' = [op |-> "reorder", job |-> 0, ok |-> isArray, list |-> jobIds,
                  again |-> /\ lastOp.op = "reorder"
                            /\ lastOp.ok
                            /\ lastOp.list = jobIds]
    /\ dispatchLog' = <<>>
    /\ UNCHANGED <<photos, runningProcs, workers, maxConcurrent, elapsedMs,
                   submitted, resultsDirEnv>>

\* routes/jobs.js 134-139: the canGoBack field of a listed job, as JSON
\* text; the field is set on jobs waiting for input only
canGoBack(job) ==
    IF job.status = "waiting_input" /\ job.resumeFromStep # Undefined
    THEN IF \E i \in 0 .. (job.resumeFromStep - 1) : job.steps[i + 1] \in MANUAL_STEPS
         THEN "true" ELSE "false"
    ELSE "undefined"

\* routes/jobs.js 119-142: any list-jobs query refreshes the heartbeat;
\* lastOp keeps the canGoBack field of every job of the response
ListJobs ==
    /\ elapsedMs' = 0
    /\ lastOp' = [op |-> "listJobs", job |-> 0, ok |-> TRUE,
                  canGoBack |-> [j \in DOMAIN jobs |-> canGoBack(jobs[j])]]
    /\ dispatchLog' = <<>>
    /\ UNCHANGED <<jobs, photos, runningProcs, workers, maxConcurrent,
                   submitted, resultsDirEnv>>

\* routes/photos.js 38-41
DeletePhoto(p) ==
    /\ p \in photos
    /\ photos' = photos \ {p}
    /\ lastOp' = [op |-> "deletePhoto", job |-> 0, ok |-> TRUE]
    /\ dispatchLog' = <<>>
    /\ UNCHANGED <<jobs, runningProcs, workers, maxConcurrent, elapsedMs,
                   submitted, resultsDirEnv>>

\* ------------------------------------------------------------ cleanup.js
\* jobs.delete(id): the record leaves the store.  Its id is never issued
\* again (randomUUID), so its place in insertion order is held by a record
\* that no handler and no dispatch accepts
Removed == [NewJob(Null, <<>>, Null, Null, 0) EXCEPT !.status = "removed"]

\* the files the pipeline and the upload route have written for the jobs
\* and photos in the store: uploads in UPLOADS_DIR, one output per stage
\* result in RESULTS_DIR (queue.js 91, 113)
WrittenFiles ==
    {UploadPath(p) : p \in photos}
    \cup UNION {{[dir |-> "RESULTS_DIR", name |-> jobs[j].stepResults[k].result.name] :
                    k \in 1 .. Len(jobs[j].stepResults)} : j \in DOMAIN jobs}

\* cleanup.js 29: job.result && !existsSync(path.join(ROOT, job.result
\* .replace(/^\//, ''))), the same path expression as routes/jobs.js 233
PurgesJob(job, present) ==
    /\ job.result # NullUrl
    /\ PathFromUrl(job.result) \notin present

\* cleanup.js 6-32.  `present` is what is left on disk once the loop of
\* lines 9-23 has unlinked the files older than CLEANUP_MAX_AGE_MS
cleanupOldFiles(present) ==
    /\ present \subseteq WrittenFiles
    /\ photos' = {p \in photos : UploadPath(p) \in present}
    /\ jobs' = [j \in DOMAIN jobs |->
                   IF PurgesJob(jobs[j], present) THEN Removed ELSE jobs[j]]
    /\ lastOp' = [op |-> "cleanup", job |-> 0, ok |-> TRUE, present |-> present]
    /\ dispatchLog' = <<>>
    /\ UNCHANGED <<runningProcs, workers, maxConcurrent, elapsedMs,
                   submitted, resultsDirEnv>>

\* --------------------------------------------------- routes/settings.js
\* request values in tenths: 0.5, 1, 1.4, 1.5, 2, 2.5, 3; Undefined stands
\* for a body whose maxConcurrent is not a number
SettingsValues == {5, 10, 14, 15, 20, 25, 30, Undefined}

\* Math.round of a value given in tenths
MathRound(tenths) == (tenths + 5) \div 10

\* variant: no upper limit on the value
AcceptsSettingAnyAbove(val) == val # Undefined /\ val >= 10

\* routes/settings.js 15
AcceptsSetting(val) ==
    val # Undefined /\ val >= 10 /\ val <= 10 * MAX_CONCURRENT_LIMIT

\* queue.js 10-12
setMaxConcurrent(M, val) == [M EXCEPT !.mc = val]

\* routes/settings.js 13-20; lastOp keeps the value of the request
PutSettings(val) ==
    /\ LET M1 == IF AcceptsSetting(val)
                 THEN setMaxConcurrent(Machine, MathRound(val)) ELSE Machine
       IN  Commit(Drain(processNext(M1)),
                  [op |-> "putSettings", job |-> 0, ok |-> AcceptsSetting(val),
                   val |-> val])
    /\ UNCHANGED <<photos, elapsedMs, resultsDirEnv>>

\* ---------------------------------------------------------- heartbeat.js
\* time passes: Date.now() - lastHeartbeat grows (capped: checkHeartbeat
\* only compares it with the timeout)
AdvanceTime ==
    /\ elapsedMs < HEARTBEAT_TIMEOUT_MS
    /\ elapsedMs' = elapsedMs + HEARTBEAT_TICK_MS
    /\ lastOp' = [op |-> "time", job |-> 0, ok |-> TRUE]
    /\ dispatchLog' = <<>>
    /\ UNCHANGED <<jobs, photos, runningProcs, workers, maxConcurrent,
                   submitted, resultsDirEnv>>

\* variant: the timeout test off by one
HeartbeatFreshInclusive(elapsed) == elapsed <= HEARTBEAT_TIMEOUT_MS

\* heartbeat.js 11
HeartbeatFresh(elapsed) == elapsed < HEARTBEAT_TIMEOUT_MS

\* variant: jobs waiting for input count as active
HeartbeatActiveWithWaiting(status) ==
    status \in {"processing", "pending", "waiting_input"}

\* heartbeat.js 13
HeartbeatActive(status) == status \in {"processing", "pending"}

\* heartbeat.js 10-28
checkHeartbeat ==
    /\ LET active == {j \in DOMAIN jobs : HeartbeatActive(jobs[j].status)}
           fires == ~HeartbeatFresh(elapsedMs) /\ active # {}
       IN  Commit(IF fires THEN CancelEach(Machine, active) ELSE Machine,
                  [op |-> "heartbeat", job |-> 0, ok |-> fires])
    /\ UNCHANGED <<photos, elapsedMs, resultsDirEnv>>

\* ----------------------------------------------------------------- specs
Init ==
    /\ jobs = <<>>
    /\ photos = PhotoIds
    /\ runningProcs = {}
    /\ workers = [j \in QueueIds |-> NoWorker]
    /\ maxConcurrent = MAX_CONCURRENT_LIMIT
    /\ elapsedMs = 0
    /\ lastOp = [op |-> "init", job |-> 0, ok |-> TRUE]
    /\ dispatchLog = <<>>
    /\ submitted = [j \in QueueIds |-> NoSnapshot]
    /\ resultsDirEnv \in BOOLEAN

\* a request the handler accepts (a rejected one changes no program state)
Accepted(A) == A /\ lastOp'.ok

\* the creation requests explored: step lists, and whether a crop
\* rectangle comes with the request
StepsAuto == <<"face_restore">>
StepsManualFirst == <<"crop", "face_restore">>
StepsManualLast == <<"face_restore", "crop">>
StepsTwoManual == <<"crop", "inpaint">>

\* Every operation of the scheduler, on accepted requests.
Next ==
    \/ \E p \in PhotoIds, s \in {StepsAuto, StepsTwoManual} :
           Len(jobs) < MaxJobs /\ Accepted(CreateJob(p, s, FALSE, FALSE))
    \/ \E j \in JobIds, ok \in BOOLEAN : WorkerExit(j, ok)
    \/ \E j \in JobIds : Accepted(SubmitInput(j, TRUE, TRUE))
    \/ \E j \in JobIds : Accepted(SkipStep(j))
    \/ \E j \in JobIds : Accepted(Back(j))
    \/ \E j \in JobIds : Accepted(Retry(j, Null))
    \/ \E j \in JobIds : Accepted(SkipFailed(j))
    \/ \E j \in JobIds : Accepted(Cancel(j))
    \/ CancelAll
    \/ \E val \in {10, 20} : PutSettings(val)
    \/ \E p \in PhotoIds : DeletePhoto(p)
    \/ ListJobs
    \/ AdvanceTime
    \/ Accepted(checkHeartbeat)

Spec == Init /\ [][Next]_vars

\* Admission and dispatch: creation with and without a crop rectangle,
\* worker exits, input, cancel, the concurrency setting, photo deletion.
NextDispatch ==
    \/ \E p \in PhotoIds, s \in {StepsAuto, StepsManualFirst, StepsManualLast} :
           Len(jobs) < MaxJobs /\ Accepted(CreateJob(p, s, FALSE, FALSE))
    \/ \E p \in PhotoIds :
           Len(jobs) < MaxJobs /\ Accepted(CreateJob(p, StepsManualFirst, FALSE, TRUE))
    \/ \E j \in JobIds, ok \in BOOLEAN : WorkerExit(j, ok)
    \/ \E j \in JobIds : Accepted(SubmitInput(j, TRUE, TRUE))
    \/ \E j \in JobIds : Accepted(Cancel(j))
    \/ \E val \in {10, 20} : PutSettings(val)
    \/ \E p \in PhotoIds : DeletePhoto(p)

SpecDispatch == Init /\ [][NextDispatch]_vars

\* Cancellation: cancel, cancel-all and the heartbeat timeout against
\* running workers, with retry and skip of failed and manual stages.
NextCancel ==
    \/ \E p \in PhotoIds, s \in {StepsAuto, StepsManualFirst} :
           Len(jobs) < MaxJobs /\ Accepted(CreateJob(p, s, FALSE, FALSE))
    \/ \E j \in JobIds, ok \in BOOLEAN : WorkerExit(j, ok)
    \/ \E j \in JobIds : Accepted(SubmitInput(j, TRUE, TRUE))
    \/ \E j \in JobIds : Accepted(SkipStep(j))
    \/ \E j \in JobIds : Accepted(Retry(j, Null))
    \/ \E j \in JobIds : Accepted(SkipFailed(j))
    \/ \E j \in JobIds : Accepted(Cancel(j))
    \/ CancelAll
    \/ AdvanceTime
    \/ Accepted(checkHeartbeat)

SpecCancel == Init /\ [][NextCancel]_vars

\* Requests on jobs in any status, the rejected ones included.
NextReject ==
    \/ \E p \in PhotoIds, s \in {StepsTwoManual, <<"online_restore">>} :
           Len(jobs) < MaxJobs /\ CreateJob(p, s, FALSE, FALSE)
    \/ \E j \in JobIds, ok \in BOOLEAN : WorkerExit(j, ok)
    \/ \E j \in JobIds : SubmitInput(j, TRUE, TRUE)
    \/ \E j \in JobIds : SkipStep(j)
    \/ \E j \in JobIds : Back(j)
    \/ \E j \in JobIds : Retry(j, Null)
    \/ \E j \in JobIds : SkipFailed(j)
    \/ \E j \in JobIds : Cancel(j)

SpecReject == Init /\ [][NextReject]_vars

\* The heartbeat: time, list-jobs queries and timer ticks, firing or not.
NextBeat ==
    \/ \E p \in PhotoIds, s \in {StepsAuto, StepsManualFirst} :
           Len(jobs) < MaxJobs /\ Accepted(CreateJob(p, s, FALSE, FALSE))
    \/ \E j \in JobIds, ok \in BOOLEAN : WorkerExit(j, ok)
    \/ \E j \in JobIds : Accepted(SubmitInput(j, TRUE, TRUE))
    \/ \E j \in JobIds : Accepted(Cancel(j))
    \/ \E val \in {10, 20} : PutSettings(val)
    \/ ListJobs
    \/ AdvanceTime
    \/ checkHeartbeat

SpecBeat == Init /\ [][NextBeat]_vars

\* The pipeline of a job with an automatic stage before two manual ones:
\* input with and without the value asked for, skip, rewind, retry, skip
\* of a failed stage, cancel, and deletion of the photo.
StepsAutoThenManual == <<"face_restore", "crop", "inpaint">>

NextPipeline ==
    \/ \E p \in PhotoIds, withCrop \in BOOLEAN :
           Len(jobs) < MaxPipelineJobs
           /\ Accepted(CreateJob(p, StepsAutoThenManual, FALSE, withCrop))
    \/ \E j \in JobIds, ok \in BOOLEAN : WorkerExit(j, ok)
    \/ \E j \in JobIds, b \in BOOLEAN : Accepted(SubmitInput(j, b, b))
    \/ \E j \in JobIds : Accepted(SkipStep(j))
    \/ \E j \in JobIds : Accepted(Back(j))
    \/ \E j \in JobIds : Accepted(Retry(j, Null))
    \/ \E j \in JobIds : Accepted(SkipFailed(j))
    \/ \E j \in JobIds : Accepted(Cancel(j))
    \/ \E p \in PhotoIds : DeletePhoto(p)

SpecPipeline == Init /\ [][NextPipeline]_vars

\* A steps list in which a stage key occurs twice: worker exits, retry
\* with and without a model, skip of the failed stage, cancel.  Retry and
\* skip go by the first occurrence of the failed key, so the results of a
\* job can grow without limit: both are explored up to MaxResults.
StepsRepeated == <<"face_restore", "colorize", "face_restore">>

NextRepeat ==
    \/ \E p \in PhotoIds :
           Len(jobs) < MaxPipelineJobs
           /\ Accepted(CreateJob(p, StepsRepeated, FALSE, FALSE))
    \/ \E j \in JobIds, ok \in BOOLEAN : WorkerExit(j, ok)
    \/ \E j \in JobIds, model \in RetryModels :
           /\ j \in DOMAIN jobs
           /\ Len(jobs[j].stepResults) < MaxResults
           /\ Accepted(Retry(j, model))
    \/ \E j \in JobIds :
           /\ j \in DOMAIN jobs
           /\ Len(jobs[j].stepResults) < MaxResults
           /\ Accepted(SkipFailed(j))
    \/ \E j \in JobIds : Accepted(Cancel(j))

SpecRepeat == Init /\ [][NextRepeat]_vars

\* the id lists of the reorder requests explored: up to MaxListLen ids,
\* repeated ids and one id of no job included
ReorderIds == 1 .. (MaxQueue + 1)
ReorderLists == UNION {[1 .. n -> ReorderIds] : n \in 0 .. MaxListLen}

\* The pending queue: jobs that open with a manual stage (the first one
\* waits for its input and holds the others pending), reorder requests
\* with and without an id array, input and cancel.
NextReorder ==
    \/ \E p \in PhotoIds :
           Len(jobs) < MaxQueue /\ Accepted(CreateJob(p, StepsManualFirst, FALSE, FALSE))
    \/ \E jobIds \in ReorderLists : Reorder(TRUE, jobIds)
    \/ Reorder(FALSE, <<>>)
    \/ \E j \in QueueIds : Accepted(Cancel(j))

SpecReorder == Init /\ [][NextReorder]_vars

\* The concurrency setting: updates with any value of SettingsValues,
\* against jobs that run, wait for input, or are held pending.
NextSettings ==
    \/ \E p \in PhotoIds, s \in {StepsAuto, StepsManualFirst} :
           Len(jobs) < MaxJobs /\ Accepted(CreateJob(p, s, FALSE, FALSE))
    \/ \E j \in JobIds : WorkerExit(j, TRUE)
    \/ \E j \in JobIds : Accepted(SubmitInput(j, TRUE, TRUE))
    \/ \E val \in SettingsValues : PutSettings(val)

SpecSettings == Init /\ [][NextSettings]_vars

\* the creation requests explored at the edges: a photo id of no photo, no
\* step at all, a key of no registered stage alone and next to a
\* registered one
RequestPhotoIds == PhotoIds \cup {"p0"}
StepsNone == <<>>
StepsUnknown == <<"sharpen">>
StepsPartlyUnknown == <<"sharpen", "face_restore">>

\* Creation: every request, the refused ones included, with worker exits,
\* cancel and deletion of the photo.
NextCreate ==
    \/ \E p \in RequestPhotoIds,
          s \in {StepsNone, StepsUnknown, StepsPartlyUnknown, StepsAuto,
                 StepsManualFirst} :
           Len(jobs) < MaxJobs /\ CreateJob(p, s, FALSE, FALSE)
    \/ \E j \in JobIds, ok \in BOOLEAN : WorkerExit(j, ok)
    \/ \E j \in JobIds : Accepted(Cancel(j))
    \/ \E p \in PhotoIds : DeletePhoto(p)

SpecCreate == Init /\ [][NextCreate]_vars

\* the reorder requests of a client that lists the pending jobs, each
\* once, in an order of its choice
PendingOrders(js) ==
    LET pending == {j \in DOMAIN js : js[j].status = "pending"}
    IN  {l \in ReorderLists :
            /\ Len(l) = Cardinality(pending)
            /\ {l[k] : k \in 1 .. Len(l)} = pending}

\* Dispatch order: automatic jobs and jobs that open with a manual stage,
\* queued behind a lowered concurrency setting, reordered, and dispatched
\* as workers exit.
NextOrder ==
    \/ \E p \in PhotoIds, s \in {StepsAuto, StepsManualFirst} :
           Len(jobs) < MaxQueue /\ Accepted(CreateJob(p, s, FALSE, FALSE))
    \/ \E j \in QueueIds, ok \in BOOLEAN : WorkerExit(j, ok)
    \/ \E val \in {10, 20} : PutSettings(val)
    \/ \E jobIds \in PendingOrders(jobs) : Reorder(TRUE, jobIds)

SpecOrder == Init /\ [][NextOrder]_vars

\* The stages of one job with three manual stages, the key of the first
\* repeated: creation with and without the crop rectangle and the mask,
\* worker exits, input, skip, rewind (refused ones included), retry, skip
\* of a failed stage, cancel, and list-jobs queries.  Retry and skip of a
\* failed stage go by the first occurrence of the key and are explored up
\* to MaxResults results.
StepsThreeManual == <<"crop", "inpaint", "crop">>

NextStages ==
    \/ \E p \in PhotoIds, withMask, withCrop \in BOOLEAN :
           Len(jobs) < MaxPipelineJobs
           /\ Accepted(CreateJob(p, StepsThreeManual, withMask, withCrop))
    \/ \E j \in JobIds, ok \in BOOLEAN : WorkerExit(j, ok)
    \/ \E j \in JobIds, b \in BOOLEAN : Accepted(SubmitInput(j, b, b))
    \/ \E j \in JobIds : Accepted(SkipStep(j))
    \/ \E j \in JobIds : Back(j)
    \/ \E j \in JobIds :
           /\ j \in DOMAIN jobs
           /\ Len(jobs[j].stepResults) < MaxResults
           /\ Accepted(Retry(j, Null))
    \/ \E j \in JobIds :
           /\ j \in DOMAIN jobs
           /\ Len(jobs[j].stepResults) < MaxResults
           /\ Accepted(SkipFailed(j))
    \/ \E j \in JobIds : Accepted(Cancel(j))
    \/ ListJobs

SpecStages == Init /\ [][NextStages]_vars

\* Worker processes against the concurrency setting left at its initial
\* value: up to MaxQueue jobs, worker exits, input and cancel.
NextWorkers ==
    \/ \E p \in PhotoIds, s \in {StepsAuto, StepsManualFirst} :
           Accepted(CreateJob(p, s, FALSE, FALSE))
    \/ \E j \in QueueIds, ok \in BOOLEAN : WorkerExit(j, ok)
    \/ \E j \in QueueIds : Accepted(SubmitInput(j, TRUE, TRUE))
    \/ \E j \in QueueIds : Accepted(Cancel(j))

SpecWorkers == Init /\ [][NextWorkers]_vars

\* Skipping manual stages: one job whose manual stage is followed by an
\* automatic stage, or by a manual stage with or without its input; skip
\* requests in every status, input, worker exits and photo deletion.
NextSkip ==
    \/ \E p \in PhotoIds, s \in {StepsManualFirst, StepsAutoThenManual},
           withMask, withCrop \in BOOLEAN :
           Len(jobs) < MaxPipelineJobs /\ Accepted(CreateJob(p, s, withMask, withCrop))
    \/ \E j \in JobIds, ok \in BOOLEAN : WorkerExit(j, ok)
    \/ \E j \in JobIds : Accepted(SubmitInput(j, TRUE, TRUE))
    \/ \E j \in JobIds : SkipStep(j)
    \/ \E p \in PhotoIds : DeletePhoto(p)

SpecSkip == Init /\ [][NextSkip]_vars

\* Progress of the queue.  Automatic jobs and jobs with two manual stages,
\* every request on them, and the concurrency setting.  The heartbeat is
\* left out: a client that keeps polling resets it before it times out
\* (routes/jobs.js 120, heartbeat.js 11).
NextLive ==
    \/ \E p \in PhotoIds, s \in {StepsAuto, StepsTwoManual} :
           Len(jobs) < MaxJobs /\ Accepted(CreateJob(p, s, FALSE, FALSE))
    \/ \E j \in JobIds, ok \in BOOLEAN : WorkerExit(j, ok)
    \/ \E j \in JobIds, b \in BOOLEAN : Accepted(SubmitInput(j, b, b))
    \/ \E j \in JobIds : Accepted(SkipStep(j))
    \/ \E j \in JobIds : Accepted(Back(j))
    \/ \E j \in JobIds : Accepted(Retry(j, Null))
    \/ \E j \in JobIds : Accepted(SkipFailed(j))
    \/ \E j \in JobIds : Accepted(Cancel(j))
    \/ \E val \in {10, 20} : PutSettings(val)

\* python.js 55: a child process that was spawned exits, signalled or
\* not.  The exit steps of job j, told by the record WorkerExit leaves in
\* lastOp; they are enabled while j has a child process.
WorkerExits(j) ==
    /\ j \in DOMAIN jobs
    /\ workers[j].st # "none"
    /\ \E o \in {"workerOk", "workerErr"} :
           lastOp' = [op |-> o, job |-> j, ok |-> TRUE,
                      at |-> workers[j].i, input |-> workers[j].input]

\* the client answers a job that waits for input with an input request,
\* a skip or a cancel: the steps told by the records SubmitInput,
\* SkipStep and Cancel leave in lastOp, enabled while j waits
ClientAnswers(j) ==
    /\ j \in DOMAIN jobs
    /\ jobs[j].status = "waiting_input"
    /\ \/ \E b \in BOOLEAN :
              lastOp' = [op |-> "submitInput", job |-> j, ok |-> TRUE,
                         mask |-> b, cropRect |-> b]
       \/ lastOp' = [op |-> "skipStep", job |-> j, ok |-> TRUE]
       \/ lastOp' = [op |-> "cancel", job |-> j, ok |-> TRUE]

SpecLive ==
    /\ Init /\ [][NextLive]_vars
    /\ \A j \in JobIds : WF_lastOp(WorkerExits(j))
    /\ \A j \in JobIds : WF_lastOp(ClientAnswers(j))

\* The cleanup timer.  Automatic jobs and jobs that start with a manual
\* stage, so that a sweep meets jobs in every status; the sweep finds any
\* part of the written files still on disk.
NextSweep ==
    \/ \E p \in PhotoIds, s \in {StepsAuto, StepsManualFirst} :
           Len(jobs) < MaxJobs /\ Accepted(CreateJob(p, s, FALSE, FALSE))
    \/ \E j \in JobIds, ok \in BOOLEAN : WorkerExit(j, ok)
    \/ \E j \in JobIds : Accepted(SubmitInput(j, TRUE, TRUE))
    \/ \E j \in JobIds : Accepted(Cancel(j))
    \/ \E present \in SUBSET WrittenFiles : cleanupOldFiles(present)

SpecSweep == Init /\ [][NextSweep]_vars

\* ============================================================ properties
\* vocabulary of the properties, stated on job records alone
CountStatus(js, st) == Cardinality({j \in DOMAIN js : js[j].status = st})

HasManualStage(job) ==
    \E k \in 1 .. Len(job.steps) : job.steps[k] \in {"crop", "inpaint"}

\* the stage at steps[resumeFromStep] is a manual stage still needing input
NextStageAwaitsInput(job) ==
    LET i == IF job.resumeFromStep = Undefined THEN 0 ELSE job.resumeFromStep
    IN  /\ i < Len(job.steps)
        /\ \/ job.steps[i + 1] = "crop" /\ job.cropRect = Null
           \/ job.steps[i + 1] = "inpaint" /\ job.maskPath = Null

\* the dispatch runs of the last macrotask
Runs == {dispatchLog[n] : n \in 1 .. Len(dispatchLog)}

SomeWaiting(js) == \E w \in DOMAIN js : js[w].status = "waiting_input"

\* the candidate set of a dispatch run
RunCandidates(r) ==
    {j \in DOMAIN r.pre :
        /\ r.pre[j].status = "pending"
        /\ (~SomeWaiting(r.pre) \/ ~HasManualStage(r.pre[j]))}

\* the slots taken before position k of a run: the jobs processing when it
\* began and the candidates dispatched earlier in it that take a slot
SlotsTakenBefore(r, k) ==
    CountStatus(r.pre, "processing")
    + Cardinality({m \in 1 .. (k - 1) : ~NextStageAwaitsInput(r.pre[r.started[m]])})

\* C1 (as stated): in every reachable state the number of jobs in
\* processing is at most the current value of maxConcurrent.
C1_ProcessingWithinLimit == CountStatus(jobs, "processing") <= maxConcurrent

\* C2 (as stated): in every reachable state at most one job has status
\* waiting_input.
C2_SingleWaitingInput == CountStatus(jobs, "waiting_input") <= 1

\* C3 (as stated): in every reachable state, if some job is in
\* waiting_input then no job whose steps contain a manual stage is in
\* processing.
C3_NoManualJobProcessingWhileWaiting ==
    SomeWaiting(jobs) =>
        \A j \in DOMAIN jobs :
            HasManualStage(jobs[j]) => jobs[j].status # "processing"

\* C3 (amended): while a job stays in waiting_input, no job whose steps
\* contain a manual stage is admitted: across every step with some job in
\* waiting_input before and after it, such a job that was pending before
\* the step, or was created by it, is pending, or cancelled, afterwards.
C3_WaitingGatesManualAdmission ==
    [][\A w \in DOMAIN jobs : \A j \in DOMAIN jobs' :
          (/\ jobs[w].status = "waiting_input"
           /\ jobs'[w].status = "waiting_input"
           /\ HasManualStage(jobs'[j])
           /\ (j \in DOMAIN jobs => jobs[j].status = "pending"))
          => jobs'[j].status \in {"pending", "cancelled"}]_vars

\* a dispatch ran while one job waited for input and a job with a manual
\* stage was pending, and that job is still pending
C3_Witness ==
    \E r \in Runs : \E w, j \in DOMAIN r.pre :
        /\ r.pre[w].status = "waiting_input"
        /\ jobs[w].status = "waiting_input"
        /\ r.pre[j].status = "pending"
        /\ HasManualStage(r.pre[j])
        /\ jobs[j].status = "pending"

\* C4, second half: a candidate that will not pause is dispatched only
\* while running + slotsUsed < maxConcurrent, where running counts the jobs
\* in processing and slotsUsed the non-pausing candidates dispatched before
C4_SlotsRespected(r) ==
    \A k \in 1 .. Len(r.started) :
        ~NextStageAwaitsInput(r.pre[r.started[k]])
            => SlotsTakenBefore(r, k) < r.mc

\* C4 (as stated): a pending candidate whose next stage is a manual stage
\* still needing input is dispatched whatever the number of processing
\* jobs, takes no slot, and ends that dispatch in waiting_input; every
\* other candidate is dispatched only while running + slotsUsed <
\* maxConcurrent.
C4_PausingCandidateEndsWaiting ==
    \A r \in Runs :
        /\ \A j \in RunCandidates(r) :
               NextStageAwaitsInput(r.pre[j])
                   => /\ \E k \in 1 .. Len(r.started) : r.started[k] = j
                      /\ r.post[j].status = "waiting_input"
        /\ C4_SlotsRespected(r)

\* C4 (amended): such a candidate is dispatched whatever the number of
\* processing jobs and takes no slot; it ends that dispatch in
\* waiting_input when its photo is still in the store, and in failed when
\* the photo is gone; every other candidate is dispatched only while
\* running + slotsUsed < maxConcurrent.
C4_PausingCandidateTakesNoSlot ==
    \A r \in Runs :
        /\ \A j \in RunCandidates(r) :
               NextStageAwaitsInput(r.pre[j])
                   => /\ \E k \in 1 .. Len(r.started) : r.started[k] = j
                      /\ r.post[j].status =
                             IF r.pre[j].photoId \in photos
                             THEN "waiting_input" ELSE "failed"
        /\ C4_SlotsRespected(r)

\* a dispatch run that began with every slot taken started a candidate
\* that paused for input
C4_Witness ==
    \E r \in Runs : \E j \in RunCandidates(r) :
        /\ CountStatus(r.pre, "processing") = r.mc
        /\ NextStageAwaitsInput(r.pre[j])
        /\ r.post[j].status = "waiting_input"

\* C5: a run of dispatch that begins with some job in waiting_input starts
\* no pending job whose steps contain a manual stage; such a job stays
\* pending with every field unchanged.
C5_GateHoldsManualJobs ==
    \A r \in Runs :
        SomeWaiting(r.pre) =>
            \A j \in DOMAIN r.pre :
                (r.pre[j].status = "pending" /\ HasManualStage(r.pre[j]))
                    => /\ \A k \in 1 .. Len(r.started) : r.started[k] # j
                       /\ r.post[j] = r.pre[j]

\* a dispatch run began with a job waiting for input and a pending job
\* whose manual stage is not its first one
C5_Witness ==
    \E r \in Runs : \E j \in DOMAIN r.pre :
        /\ SomeWaiting(r.pre)
        /\ r.pre[j].status = "pending"
        /\ HasManualStage(r.pre[j])
        /\ r.pre[j].steps[1] \notin {"crop", "inpaint"}
        /\ r.post[j].status = "pending"

\* C6: a job cancelled while its worker was running stays cancelled
\* however the worker exits: no step changes its status, appends to its
\* stepResults or advances its currentInputPath.
C6_CancelledSurvivesWorkerExit ==
    [][\A j \in DOMAIN jobs :
          (jobs[j].status = "cancelled" /\ workers[j].st # "none")
          => /\ jobs'[j].status = "cancelled"
             /\ jobs'[j].stepResults = jobs[j].stepResults
             /\ jobs'[j].currentInputPath = jobs[j].currentInputPath]_vars

\* the worker of a cancelled job has just exited successfully
C6_Witness ==
    /\ lastOp.op = "workerOk"
    /\ lastOp.job \in DOMAIN jobs
    /\ jobs[lastOp.job].status = "cancelled"
    /\ workers[lastOp.job].st = "none"

\* the request of this step is one the status of its job does not allow
IllegalRequest ==
    LET op == lastOp'.op
        j == lastOp'.job
    IN  /\ j \in DOMAIN jobs
        /\ \/ op = "cancel"
              /\ jobs[j].status \in {"completed", "failed", "cancelled"}
           \/ op \in {"submitInput", "skipStep", "back"}
              /\ jobs[j].status # "waiting_input"
           \/ op \in {"retry", "skipFailed"}
              /\ jobs[j].status # "failed"

\* C7: an operation invoked on a job whose status does not allow it changes
\* no job field, leaves the running-process table and maxConcurrent alone
\* and triggers no dispatch.
C7_IllegalRequestChangesNothing ==
    [][IllegalRequest => (UNCHANGED progVars /\ dispatchLog' = <<>>)]_vars

\* a cancel has just been refused on a failed job
C7_Witness ==
    /\ lastOp.op = "cancel"
    /\ lastOp.job \in DOMAIN jobs
    /\ jobs[lastOp.job].status = "failed"

\* C8: a completed or cancelled job never changes status again, and a
\* failed job leaves failed only in a retry or skipFailed on that job.
C8_TerminalStatuses ==
    [][\A j \in DOMAIN jobs :
          /\ jobs[j].status \in {"completed", "cancelled"}
                 => jobs'[j].status = jobs[j].status
          /\ (jobs[j].status = "failed" /\ jobs'[j].status # "failed")
                 => (lastOp'.op \in {"retry", "skipFailed"} /\ lastOp'.job = j)]_vars

\* the worker of a cancelled job has just exited with an error, next to a
\* completed job
C8_Witness ==
    /\ lastOp.op = "workerErr"
    /\ lastOp.job \in DOMAIN jobs
    /\ jobs[lastOp.job].status = "cancelled"
    /\ \E k \in DOMAIN jobs : jobs[k].status = "completed"

\* C9: a heartbeat tick that finds lastHeartbeat at least
\* HEARTBEAT_TIMEOUT_MS old cancels every pending or processing job, clears
\* its currentStep, waitingStep and waitingImage, signals its worker, and
\* leaves the running-process table empty.
C9_StaleHeartbeatCancelsActive ==
    [][(lastOp'.op = "heartbeat" /\ elapsedMs >= HEARTBEAT_TIMEOUT_MS)
       => /\ \A j \in DOMAIN jobs :
                 jobs[j].status \in {"pending", "processing"}
                     => /\ jobs'[j].status = "cancelled"
                        /\ jobs'[j].currentStep = Null
                        /\ jobs'[j].waitingStep = Null
                        /\ jobs'[j].waitingImage = NullUrl
                        /\ (jobs[j].status = "processing"
                                => workers'[j].st = "killed")
          /\ runningProcs' = {}]_vars

\* the heartbeat has just cancelled a pending job and a job whose worker
\* was running
C9_Witness ==
    /\ lastOp.op = "heartbeat"
    /\ elapsedMs >= HEARTBEAT_TIMEOUT_MS
    /\ \E j, k \in DOMAIN jobs :
           /\ jobs[j].status = "cancelled" /\ workers[j].st = "killed"
           /\ jobs[k].status = "cancelled" /\ workers[k].st = "none"
           /\ jobs[k].stepResults = <<>> /\ jobs[k].progress = 0

\* C10: a heartbeat tick changes no field of a job in waiting_input,
\* completed, failed or cancelled, and changes no state at all when no job
\* is pending or processing.
C10_HeartbeatLeavesOthersAlone ==
    [][lastOp'.op = "heartbeat"
       => /\ \A j \in DOMAIN jobs :
                 jobs[j].status \in {"waiting_input", "completed",
                                     "failed", "cancelled"}
                     => jobs'[j] = jobs[j]
          /\ (\A j \in DOMAIN jobs :
                  jobs[j].status \notin {"pending", "processing"})
                 => UNCHANGED progVars]_vars

\* a stale heartbeat tick has just cancelled one job and left a job in
\* waiting_input as it was
C10_Witness ==
    /\ lastOp.op = "heartbeat"
    /\ lastOp.ok
    /\ elapsedMs >= HEARTBEAT_TIMEOUT_MS
    /\ \E j, k \in DOMAIN jobs :
           /\ jobs[j].status = "waiting_input"
           /\ jobs[k].status = "cancelled"

\* resumeFromStep, read as 0 when not yet set
ResumeOrZero(job) ==
    IF job.resumeFromStep = Undefined THEN 0 ELSE job.resumeFromStep

\* C11 (as stated): for every job in every reachable state,
\* stepResults.length <= resumeFromStep <= steps.length.
C11_ResumeIndexBrackets ==
    \A j \in DOMAIN jobs :
        /\ Len(jobs[j].stepResults) <= ResumeOrZero(jobs[j])
        /\ ResumeOrZero(jobs[j]) <= Len(jobs[j].steps)

\* C12 (as stated): whenever a job is processing, its currentStep equals
\* steps[resumeFromStep].
C12_CurrentStepAtResumeIndex ==
    \A j \in DOMAIN jobs :
        jobs[j].status = "processing"
            => /\ ResumeOrZero(jobs[j]) < Len(jobs[j].steps)
               /\ jobs[j].currentStep = jobs[j].steps[ResumeOrZero(jobs[j]) + 1]

\* the input a manual stage asks for is absent on the job
InputAbsent(job, s) ==
    \/ s = "crop" /\ job.cropRect = Null
    \/ s = "inpaint" /\ job.maskPath = Null

\* C13: whenever a job is in waiting_input, waitingStep equals
\* steps[resumeFromStep], that stage is a manual stage, and the input it
\* asks for (cropRect for crop, maskPath for inpaint) is absent on the job.
C13_WaitingStepAtResumeIndex ==
    \A j \in DOMAIN jobs :
        jobs[j].status = "waiting_input"
            => /\ ResumeOrZero(jobs[j]) < Len(jobs[j].steps)
               /\ jobs[j].waitingStep = jobs[j].steps[ResumeOrZero(jobs[j]) + 1]
               /\ jobs[j].waitingStep \in {"crop", "inpaint"}
               /\ InputAbsent(jobs[j], jobs[j].waitingStep)

\* a job paused again at its last stage after a request that carried no
\* input, with the rectangle of an earlier crop consumed
C13_Witness ==
    /\ lastOp.op = "submitInput"
    /\ lastOp.job \in DOMAIN jobs
    /\ jobs[lastOp.job].status = "waiting_input"
    /\ jobs[lastOp.job].resumeFromStep = 2
    /\ Len(jobs[lastOp.job].stepResults) = 2

\* C14: whenever a job is completed, by running off the end of the pipeline
\* or by skipFailed on its last step, progress is 100 and result is the URL
\* of the last entry of stepResults, or null when stepResults is empty.
C14_CompletedResult ==
    \A j \in DOMAIN jobs :
        jobs[j].status = "completed"
            => /\ jobs[j].progress = 100
               /\ jobs[j].result =
                      IF Len(jobs[j].stepResults) > 0
                      THEN jobs[j].stepResults[Len(jobs[j].stepResults)].result
                      ELSE NullUrl

\* a job has just completed by the skip of its failed last stage, with
\* results of earlier stages
C14_Witness ==
    /\ lastOp.op = "skipFailed"
    /\ lastOp.job \in DOMAIN jobs
    /\ jobs[lastOp.job].status = "completed"
    /\ Len(jobs[lastOp.job].stepResults) > 0

\* C15 (as stated): for every job in every reachable state, failedStep and
\* failedStepIndex are set if and only if the status is failed.
C15_FailedFieldsIffFailed ==
    \A j \in DOMAIN jobs :
        (jobs[j].failedStep # Null /\ jobs[j].failedStepIndex # Undefined)
            <=> jobs[j].status = "failed"

\* C16 (as stated): when the worker of the stage at pipeline index i fails
\* and the job was not cancelled, the job becomes failed with failedStep =
\* steps[i] and failedStepIndex = i.
C16_FailureRecordsPipelineIndex ==
    [][\A j \in DOMAIN jobs :
          (/\ lastOp'.op = "workerErr"
           /\ lastOp'.job = j
           /\ jobs[j].status # "cancelled")
          => /\ jobs'[j].status = "failed"
             /\ jobs'[j].failedStep = jobs[j].steps[workers[j].i + 1]
             /\ jobs'[j].failedStepIndex = workers[j].i]_vars

\* C17 (as stated): along every execution a job's resumeFromStep never
\* decreases except as the direct effect of rewind (back) or retry on that
\* job; dispatch, pause, submitInput, skipStep and skipFailed never lower it.
C17_ResumeIndexLoweredOnlyByBackOrRetry ==
    [][\A j \in DOMAIN jobs :
          ResumeOrZero(jobs'[j]) < ResumeOrZero(jobs[j])
          => /\ lastOp'.op \in {"back", "retry"}
             /\ lastOp'.job = j]_vars

\* C18 (as stated): for a job that waited at manual stage index t, whose
\* input was submitted, whose pipeline went on to the next manual pause and
\* which is then rewound to index t (its photo still stored), the rewind
\* yields the state the job had before the submit: waiting_input at t, the
\* same waitingStep, waitingImage, currentInputPath and stepResults, and
\* the input of the stage absent; whatever history led to the first pause.
C18_RewindRestoresPreSubmitState ==
    [][\A j \in DOMAIN jobs :
          (/\ lastOp'.op = "back" /\ lastOp'.ok /\ lastOp'.job = j
           /\ jobs[j].status = "waiting_input"
           /\ jobs[j].photoId \in photos
           /\ submitted[j] # NoSnapshot
           /\ submitted[j].at < ResumeIndex(jobs[j])
           /\ submitted[j].at = BackTarget(jobs[j]))
          => /\ jobs'[j].status = "waiting_input"
             /\ jobs'[j].resumeFromStep = submitted[j].at
             /\ jobs'[j].waitingStep = submitted[j].waitingStep
             /\ jobs'[j].waitingImage = submitted[j].waitingImage
             /\ jobs'[j].currentInputPath = submitted[j].currentInputPath
             /\ jobs'[j].stepResults = submitted[j].stepResults
             /\ InputAbsent(jobs'[j], jobs'[j].waitingStep)]_vars

\* the ids of the pending jobs
PendingIds(js) == {j \in DOMAIN js : js[j].status = "pending"}

\* list names every member of S exactly once and nothing else
IsPermutationOf(list, S) ==
    /\ Len(list) = Cardinality(S)
    /\ {list[k] : k \in 1 .. Len(list)} = S

\* id occurs in list
Listed(list, id) == \E k \in 1 .. Len(list) : list[k] = id

\* the 0-based position of the last occurrence of id in list
LastPosition(list, id) ==
    (CHOOSE k \in 1 .. Len(list) :
         /\ list[k] = id
         /\ \A m \in (k + 1) .. Len(list) : list[m] # id) - 1

\* C19: reorder is idempotent.  When a reorder request whose list is a
\* permutation of the ids of the pending jobs has been handled and the
\* same request is handled again right after it, the second one leaves
\* the priority and the status of every job as the first one left them.
C19_ReorderIdempotent ==
    [][(/\ lastOp.op = "reorder" /\ lastOp.ok
        /\ lastOp'.op = "reorder" /\ lastOp'.ok
        /\ lastOp'.list = lastOp.list
        /\ IsPermutationOf(lastOp.list, PendingIds(jobs)))
       => /\ DOMAIN jobs' = DOMAIN jobs
          /\ \A j \in DOMAIN jobs :
                 /\ jobs'[j].priority = jobs[j].priority
                 /\ jobs'[j].status = jobs[j].status]_vars

\* a reorder request that lists two pending jobs or more, against their
\* creation order, has been handled twice in a row, and every pending job
\* holds its list position
C19_Witness ==
    /\ lastOp.op = "reorder" /\ lastOp.ok /\ lastOp.again
    /\ IsPermutationOf(lastOp.list, PendingIds(jobs))
    /\ Len(lastOp.list) >= 2
    /\ lastOp.list[1] > lastOp.list[2]
    /\ \A k \in 1 .. Len(lastOp.list) : jobs[lastOp.list[k]].priority = k - 1

\* C20: a reorder request sets priority to the list position (the last
\* one when an id is listed more than once) of every listed id that
\* resolves to a pending job and changes nothing else: ids of no job and
\* ids of jobs that are not pending are ignored, every other field of the
\* listed pending jobs and every field of every other job are unchanged,
\* no job is added or removed, and no worker is started or stopped.
C20_ReorderTouchesOnlyListedPending ==
    [][(lastOp'.op = "reorder" /\ lastOp'.ok)
       => /\ DOMAIN jobs' = DOMAIN jobs
          /\ \A j \in DOMAIN jobs :
                 IF jobs[j].status = "pending" /\ Listed(lastOp'.list, j)
                 THEN jobs'[j] = [jobs[j] EXCEPT
                                     !.priority = LastPosition(lastOp'.list, j)]
                 ELSE jobs'[j] = jobs[j]
          /\ UNCHANGED <<photos, runningProcs, workers, maxConcurrent>>]_vars

\* a reorder request has been handled that listed an id of no job, a job
\* that is not pending and still holds its creation time, and a pending
\* job that now holds its position in the list
C20_Witness ==
    /\ lastOp.op = "reorder" /\ lastOp.ok
    /\ \E a, b, c \in 1 .. Len(lastOp.list) :
           /\ lastOp.list[a] \notin DOMAIN jobs
           /\ lastOp.list[b] \in DOMAIN jobs
           /\ jobs[lastOp.list[b]].status # "pending"
           /\ jobs[lastOp.list[b]].priority >= MaxListLen
           /\ lastOp.list[c] \in PendingIds(jobs)
           /\ c > 1
           /\ jobs[lastOp.list[c]].priority = c - 1

\* C21 (as stated): a settings update whose value is not a number within
\* [1, MAX_CONCURRENT_LIMIT] leaves the whole state unchanged: maxConcurrent
\* keeps its value and no job changes status or any other field.
C21_RejectedSettingChangesNothing ==
    [][(lastOp'.op = "putSettings" /\ ~lastOp'.ok)
       => UNCHANGED <<jobs, maxConcurrent, runningProcs, workers>>]_vars

\* C22: in every reachable state maxConcurrent is an integer with
\* 1 <= maxConcurrent <= MAX_CONCURRENT_LIMIT.
C22_MaxConcurrentInRange == maxConcurrent \in 1 .. MAX_CONCURRENT_LIMIT

\* a fractional value within the limits has just been accepted and
\* rounded, after a value above the limit was refused
C22_Witness ==
    /\ lastOp.op = "putSettings" /\ lastOp.ok
    /\ lastOp.val = 14
    /\ maxConcurrent = 1

\* the keys of the registered stages
RegisteredStage(s) ==
    s \in {"crop", "inpaint", "spot_removal", "scratch_removal",
           "face_restore", "colorize", "upscale"}

\* a steps list that names no registered stage
NoRegisteredStage(steps) ==
    \A k \in 1 .. Len(steps) : ~RegisteredStage(steps[k])

C27_BadCreateRejected ==
    [][(/\ lastOp'.op = "create"
        /\ \/ lastOp'.photo \notin photos
           \/ \E k \in 1 .. Len(lastOp'.steps) :
                  ~RegisteredStage(lastOp'.steps[k]))
       => /\ lastOp'.http = 400
          /\ jobs' = jobs
          /\ dispatchLog' = <<>>]_vars

\* C24: pending jobs are selected by priority ascending.  Whenever a
\* dispatch run starts a pending job J that takes a slot, no other
\* candidate of that run that takes a slot too and has a strictly smaller
\* priority than J is left pending by that run.
C24_DispatchByPriority ==
    \A r \in Runs : \A k \in 1 .. Len(r.started) :
        LET J == r.started[k]
        IN  ~NextStageAwaitsInput(r.pre[J])
            => \A c \in RunCandidates(r) :
                   (/\ ~NextStageAwaitsInput(r.pre[c])
                    /\ r.pre[c].priority < r.pre[J].priority)
                   => r.post[c].status # "pending"

\* a dispatch run started a job that takes a slot and left pending a job
\* created before it that takes a slot too and has a greater priority
C24_Witness ==
    \E r \in Runs : \E k \in 1 .. Len(r.started) : \E c \in RunCandidates(r) :
        /\ ~NextStageAwaitsInput(r.pre[r.started[k]])
        /\ ~NextStageAwaitsInput(r.pre[c])
        /\ c < r.started[k]
        /\ r.pre[r.started[k]].priority < r.pre[c].priority
        /\ r.post[r.started[k]].status = "processing"
        /\ r.post[c].status = "pending"

\* C25: the running-process table holds an entry for a job only while a
\* worker spawned for that job has not exited: in every reachable state
\* every key of the table is the id of a job in processing whose worker is
\* running, so a job whose worker has exited, or was signalled by a
\* cancellation, has no entry.
C25_HandlesOfRunningWorkers ==
    \A j \in runningProcs :
        /\ j \in DOMAIN jobs
        /\ jobs[j].status = "processing"
        /\ workers[j].st = "running"

\* the worker of a job has just exited and the job holds no entry, while
\* the worker of another job is running and holds one
C25_Witness ==
    /\ lastOp.op \in {"workerOk", "workerErr"}
    /\ lastOp.job \notin runningProcs
    /\ workers[lastOp.job].st = "none"
    /\ runningProcs # {}

\* C26: for a single job at most one pipeline execution and one worker
\* are in flight at any time, and the worker of a stage is spawned only
\* after the worker of the stage executed before it has exited and the
\* onComplete hook of that stage has run.  A step that spawns a worker for
\* a job finds no process of that job in flight, unless the step is the
\* successful exit of that very process; the new worker then runs a later
\* stage on the output of the exited one, the result of the exited stage
\* is recorded and the input it consumed is released.
C26_OneWorkerPerJobInOrder ==
    [][\A j \in DOMAIN jobs :
          (workers'[j].st = "running" /\ workers'[j] # workers[j])
          => /\ ~workers'[j].over
             /\ workers[j].st # "none"
                    => /\ lastOp'.op = "workerOk" /\ lastOp'.job = j
                       /\ workers[j].st = "running"
                       /\ workers'[j].i > workers[j].i
                       /\ workers'[j].input = workers[j].output
                       /\ jobs'[j].stepResults =
                              Append(jobs[j].stepResults,
                                     [step |-> jobs[j].steps[workers[j].i + 1],
                                      result |-> [root |-> "/results",
                                                  name |-> workers[j].output.name]])
                       /\ jobs[j].steps[workers[j].i + 1] \in {"crop", "inpaint"}
                              => InputAbsent(jobs'[j],
                                             jobs[j].steps[workers[j].i + 1])]_vars

\* the crop worker of a job has just exited successfully: its result is
\* recorded, the crop rectangle is released, and the inpaint worker of the
\* job is running on the crop output
C26_Witness ==
    /\ lastOp.op = "workerOk"
    /\ lastOp.job \in DOMAIN jobs
    /\ workers[lastOp.job].st = "running"
    /\ workers[lastOp.job].i = 1
    /\ jobs[lastOp.job].steps[2] = "inpaint"
    /\ Len(jobs[lastOp.job].stepResults) = 1
    /\ jobs[lastOp.job].stepResults[1].step = "crop"
    /\ jobs[lastOp.job].cropRect = Null
    /\ jobs[lastOp.job].maskPath # Null

\* the manual indices below the index a job waits at
EarlierManual(job) ==
    {i \in 0 .. (ResumeOrZero(job) - 1) : job.steps[i + 1] \in {"crop", "inpaint"}}

\* C30: rewind on a job in waiting_input targets the greatest index
\* t < resumeFromStep whose stage is manual; when there is none it is
\* refused and changes nothing; and the canGoBack field the job list
\* reports for a job in waiting_input is true exactly when a rewind of
\* that job would be accepted.
C30_RewindTargetAndCanGoBack ==
    [][/\ \A j \in DOMAIN jobs :
              (lastOp'.op = "back" /\ lastOp'.job = j
               /\ jobs[j].status = "waiting_input")
              => IF EarlierManual(jobs[j]) = {}
                 THEN /\ ~lastOp'.ok
                      /\ UNCHANGED progVars
                      /\ dispatchLog' = <<>>
                 ELSE /\ lastOp'.ok
                      /\ jobs'[j].resumeFromStep \in EarlierManual(jobs[j])
                      /\ \A i \in EarlierManual(jobs[j]) :
                             i <= jobs'[j].resumeFromStep
       /\ lastOp'.op = "listJobs"
              => \A j \in DOMAIN jobs :
                     jobs[j].status = "waiting_input"
                     => /\ lastOp'.canGoBack[j] \in {"true", "false"}
                        /\ lastOp'.canGoBack[j] = "true"
                               <=> EarlierManual(jobs[j]) # {}]_vars

\* a job waiting at its third manual stage has just been rewound to the
\* second one, not the first
C30_Witness ==
    /\ lastOp.op = "back" /\ lastOp.ok
    /\ lastOp.job \in DOMAIN jobs
    /\ jobs[lastOp.job].status = "waiting_input"
    /\ jobs[lastOp.job].resumeFromStep = 1
    /\ Len(jobs[lastOp.job].steps) = 3
    /\ jobs[lastOp.job].steps[1] \in {"crop", "inpaint"}

\* the child processes spawned for jobs that have not exited yet, the
\* signalled ones included
LiveWorkers == {j \in DOMAIN jobs : workers[j].st # "none"}

\* C28: the number of worker processes that have been spawned and have
\* not yet exited never exceeds maxConcurrent, also right after cancel
\* signals a worker and redispatches and after a request resumes a job.
C28_LiveWorkersWithinLimit == Cardinality(LiveWorkers) <= maxConcurrent

\* the requests that start processJob on the job they name
ResumeOps == {"submitInput", "skipStep", "back", "retry", "skipFailed"}

\* processJob was started on job j in this step: by the request that names
\* it, or by a dispatch run that picked it
PipelineStarted(j) ==
    \/ lastOp'.op \in ResumeOps /\ lastOp'.job = j /\ lastOp'.ok
    \/ \E n \in 1 .. Len(dispatchLog') :
           \E k \in 1 .. Len(dispatchLog'[n].started) :
               dispatchLog'[n].started[k] = j

\* C29: when the pipeline of a job is started or resumed and the photo of
\* the job is no longer in the store, the job becomes failed, no worker
\* is spawned for it and its stepResults do not change.
C29_MissingPhotoFailsUntouched ==
    [][\A j \in DOMAIN jobs :
           (PipelineStarted(j) /\ jobs[j].photoId \notin photos)
           => /\ jobs'[j].status = "failed"
              /\ workers'[j] = workers[j]
              /\ jobs'[j].stepResults = jobs[j].stepResults]_vars

\* the index a rewind of the job goes to: the greatest manual index below
\* the one it waits at
RewindIndex(job) ==
    CHOOSE t \in EarlierManual(job) : \A i \in EarlierManual(job) : i <= t

\* C31: after a successful rewind to index t the job has resumeFromStep
\* = t, no crop rectangle and no mask for the manual stages at t and
\* above, no stepResults entry produced by a stage at t or above, and as
\* currentInputPath the file the pipeline wrote for the last remaining
\* entry, or the upload of the photo when no entry remains.  (Stated for
\* step lists without a repeated key, where the key of an entry tells the
\* index of the stage that produced it.)
C31_RewindRestoresStageState ==
    [][\A j \in DOMAIN jobs :
           (/\ lastOp'.op = "back" /\ lastOp'.ok /\ lastOp'.job = j
            /\ jobs[j].photoId \in photos)
           => LET t == RewindIndex(jobs[j])
                  job == jobs'[j]
                  n == Len(job.stepResults)
              IN  /\ job.resumeFromStep = t
                  /\ (\E i \in t .. (Len(job.steps) - 1) : job.steps[i + 1] = "crop")
                         => job.cropRect = Null
                  /\ (\E i \in t .. (Len(job.steps) - 1) : job.steps[i + 1] = "inpaint")
                         => job.maskPath = Null
                  /\ \A k \in 1 .. n :
                         IndexOf(job.steps, job.stepResults[k].step) < t
                  /\ job.currentInputPath =
                         IF n > 0 THEN OutputPath(j, job.stepResults[n].step)
                         ELSE UploadPath(job.photoId)]_vars

\* what a skip leaves of the job before the pipeline runs on: the index
\* moved by one, no new result
SkippedOne(old, new) ==
    /\ new.resumeFromStep = ResumeOrZero(old) + 1
    /\ new.stepResults = old.stepResults

\* the pipeline of job j went on at index i with the input the job held:
\* it completed on the results it had, paused at a manual stage without
\* input, or spawned the worker of the stage at i
ResumedAt(j, i, old, new) ==
    IF i >= Len(old.steps)
    THEN /\ new.status = "completed"
         /\ new.result = IF Len(old.stepResults) > 0
                         THEN old.stepResults[Len(old.stepResults)].result
                         ELSE NullUrl
    ELSE IF InputAbsent(old, old.steps[i + 1])
    THEN /\ new.status = "waiting_input"
         /\ new.waitingStep = old.steps[i + 1]
         /\ new.currentInputPath = old.currentInputPath
    ELSE /\ new.status = "processing"
         /\ workers'[j].st = "running"
         /\ workers'[j].i = i
         /\ workers'[j].input = old.currentInputPath

\* C32 (as stated): skipStep on a job waiting at index i sets
\* resumeFromStep to i + 1, appends nothing to stepResults and resumes the
\* pipeline: the stage at i + 1 receives the input the skipped stage
\* would have received, and the job completes on its existing results
\* when i is the last index.
C32_SkipAlwaysResumes ==
    [][\A j \in DOMAIN jobs :
           (lastOp'.op = "skipStep" /\ lastOp'.job = j
            /\ jobs[j].status = "waiting_input")
           => /\ lastOp'.ok
              /\ SkippedOne(jobs[j], jobs'[j])
              /\ ResumedAt(j, ResumeOrZero(jobs[j]) + 1, jobs[j], jobs'[j])]_vars

\* C32 (amended): the same while the photo of the job is in the store;
\* when it no longer is, the skip still moves the index and adds no
\* result, and the job becomes failed without a worker being started.
C32_SkipResumesWhilePhotoExists ==
    [][\A j \in DOMAIN jobs :
           (lastOp'.op = "skipStep" /\ lastOp'.job = j
            /\ jobs[j].status = "waiting_input")
           => /\ lastOp'.ok
              /\ SkippedOne(jobs[j], jobs'[j])
              /\ IF jobs[j].photoId \in photos
                 THEN ResumedAt(j, ResumeOrZero(jobs[j]) + 1, jobs[j], jobs'[j])
                 ELSE /\ jobs'[j].status = "failed"
                      /\ workers'[j] = workers[j]]_vars

\* a skip of the crop stage has just started the worker of the inpaint
\* stage on the output of the stage before the skipped one
C32_Witness ==
    /\ lastOp.op = "skipStep" /\ lastOp.ok
    /\ lastOp.job \in DOMAIN jobs
    /\ jobs[lastOp.job].resumeFromStep = 2
    /\ workers[lastOp.job].st = "running"
    /\ workers[lastOp.job].i = 2
    /\ workers[lastOp.job].input = OutputPath(lastOp.job, "face_restore")

\* the step just taken is a request on job j that directly follows the
\* failure of a worker of j: lastOp holds the loop index and the input of
\* that worker
AfterFailure(j, request) ==
    /\ lastOp.op = "workerErr" /\ lastOp.job = j
    /\ lastOp'.op = request /\ lastOp'.job = j /\ lastOp'.ok

\* C33: retry(model) on a failed job re-runs exactly the stage that
\* failed, with the input of the failed attempt and, for a stage that has
\* model variants, the supplied model as its selected model; it leaves
\* the model options of every other stage and stepResults as they were and
\* clears error, failedStep and failedStepIndex; a worker that fails
\* again leaves the job failed at the same index.
C33_RetryRerunsFailedStage ==
    [][\A j \in DOMAIN jobs :
           /\ AfterFailure(j, "retry")
                  => /\ workers'[j].st = "running"
                     /\ workers'[j].i = lastOp.at
                     /\ workers'[j].input = lastOp.input
                     /\ (lastOp'.model # Null /\ hasModels(jobs[j].steps[lastOp.at + 1]))
                            => workers'[j].model = lastOp'.model
                     /\ \A s \in STEPS \ {jobs[j].steps[lastOp.at + 1]} :
                            jobs'[j].options[s] = jobs[j].options[s]
                     /\ jobs'[j].error = Null
                     /\ jobs'[j].failedStep = Null
                     /\ jobs'[j].failedStepIndex = Undefined
                     /\ jobs'[j].stepResults = jobs[j].stepResults
           /\ (lastOp.op = "retry" /\ lastOp.job = j /\ lastOp.ok
               /\ lastOp'.op = "workerErr" /\ lastOp'.job = j)
                  => /\ jobs'[j].status = "failed"
                     /\ jobs'[j].failedStepIndex = lastOp'.at]_vars

\* C34: skipFailed on a failed job clears error, failedStep and
\* failedStepIndex; when the stage that failed was the last one the job
\* becomes completed with stepResults unchanged, otherwise the pipeline
\* resumes at the stage directly after it, with the last output recorded
\* (the upload of the photo when there is none) as input.
C34_SkipFailedResumesAfterFailedStage ==
    [][\A j \in DOMAIN jobs :
           AfterFailure(j, "skipFailed")
           => /\ jobs'[j].error = Null
              /\ jobs'[j].failedStep = Null
              /\ jobs'[j].failedStepIndex = Undefined
              /\ jobs'[j].stepResults = jobs[j].stepResults
              /\ IF lastOp.at + 1 >= Len(jobs[j].steps)
                 THEN jobs'[j].status = "completed"
                 ELSE /\ jobs'[j].resumeFromStep = lastOp.at + 1
                      /\ ResumedAt(j, lastOp.at + 1,
                                   [jobs[j] EXCEPT !.currentInputPath =
                                        IF Len(jobs[j].stepResults) > 0
                                        THEN OutputPath(j, jobs[j].stepResults[
                                                 Len(jobs[j].stepResults)].step)
                                        ELSE UploadPath(jobs[j].photoId)],
                                   jobs'[j])]_vars

\* floor(100 * i / n)
FloorPercent(i, n) == (100 * i) \div n

\* C35: whenever the pipeline starts the stage at index i of a job with n
\* stages, or pauses at it, progress is set to floor(100 * i / n); and
\* progress is always an integer in [0, 100].
C35_ProgressIsFloorOfShare ==
    [][\A j \in DOMAIN jobs' :
           LET job == jobs'[j]
               n == Len(job.steps)
           IN  /\ job.progress \in 0 .. 100
               /\ (workers'[j].st = "running" /\ workers'[j] # workers[j])
                      => job.progress = FloorPercent(workers'[j].i, n)
               /\ (/\ job.status = "waiting_input"
                   /\ (j \notin DOMAIN jobs \/ jobs[j] # job))
                      => job.progress = FloorPercent(job.resumeFromStep, n)]_vars

\* at the exit of a worker of job j, running the stage at index i: the
\* dispatch run `run` comes after the result is recorded and before the
\* next stage of j starts
RunAtBoundary(run, j, i) ==
    /\ run.pre[j].stepResults =
           Append(jobs[j].stepResults,
                  [step |-> jobs[j].steps[i + 1],
                   result |-> OutputUrl(j, jobs[j].steps[i + 1])])
    /\ run.pre[j].status = "processing"
    /\ run.pre[j].currentStep = jobs[j].steps[i + 1]
    /\ run.pre[j].progress = jobs[j].progress

\* job k is pending with manual steps before the run, its next stage
\* needs input and no job is in waiting_input
UngatedManual(run, k) ==
    /\ run.pre[k].status = "pending"
    /\ HasManualStage(run.pre[k])
    /\ NextStageAwaitsInput(run.pre[k])
    /\ CountStatus(run.pre, "waiting_input") = 0

\* job k waits for input after the run and after the step, and job j has
\* gone on with its next stage when that stage is an automatic one
AdmittedBeside(run, k, j, i) ==
    /\ run.post[k].status = "waiting_input"
    /\ jobs'[k].status = "waiting_input"
    /\ (i + 1 < Len(jobs[j].steps)
        /\ ~InputAbsent(run.pre[j], jobs[j].steps[i + 2]))
           => /\ jobs'[j].status = "processing"
              /\ workers'[j].st = "running"
              /\ workers'[j].i = i + 1

C37_OutputNamesCollisionFree ==
    \A j \in DOMAIN jobs :
        /\ workers[j].st # "none" => workers[j].input # workers[j].output
        /\ \A a, b \in 1 .. Len(jobs[j].stepResults) :
               a # b => jobs[j].stepResults[a].result # jobs[j].stepResults[b].result

\* a pending job that a dispatch run would start: not held by the gate on
\* manual jobs, and either about to pause or with a slot left for it
EligibleToStart(j) ==
    /\ jobs[j].status = "pending"
    /\ (CountStatus(jobs, "waiting_input") = 0 \/ ~HasManualStage(jobs[j]))
    /\ (NextStageAwaitsInput(jobs[j])
        \/ CountStatus(jobs, "processing") < maxConcurrent)

\* C38: redispatch happens on every state transition: once an operation
\* or a worker-exit callback and the dispatch it triggers have finished,
\* no pending job is left that is eligible to start.
C38_NoEligibleJobLeftPending ==
    \A j \in DOMAIN jobs : ~EligibleToStart(j)

\* job j is in the store and pending
IsPending(j) == j \in DOMAIN jobs /\ jobs[j].status = "pending"

\* job j is in the store and completed, failed or cancelled
IsSettled(j) ==
    j \in DOMAIN jobs /\ jobs[j].status \in {"completed", "failed", "cancelled"}

\* C39 (as stated): when every spawned worker eventually exits and every
\* job in waiting_input eventually receives submitInput, skipStep or
\* cancel, every pending job eventually leaves pending and every job
\* eventually reaches completed, failed or cancelled.
C39_EveryJobSettles ==
    \A j \in JobIds :
        /\ IsPending(j) ~> ~IsPending(j)
        /\ (j \in DOMAIN jobs) ~> IsSettled(j)

\* the last request was a rewind, or an input request without the value
\* the waiting stage asks for
RewindOrEmptyInput ==
    \/ lastOp.op = "back"
    \/ lastOp.op = "submitInput" /\ ~lastOp.mask /\ ~lastOp.cropRect

\* C39 (amended): the same when, in addition, rewind requests and input
\* requests without the value asked for stop.
C39_EveryJobSettlesOnceRewindsStop ==
    <>[](~RewindOrEmptyInput) => C39_EveryJobSettles

\* a job that waited behind the job holding the input focus has settled
\* after it
C39_Witness ==
    /\ Len(jobs) = 2
    /\ HasManualStage(jobs[1]) /\ HasManualStage(jobs[2])
    /\ jobs[1].status = "completed"
    /\ jobs[2].status = "completed"
    /\ Len(jobs[2].stepResults) = 2
\* the file a result URL names, where the pipeline wrote it (queue.js 91,
\* 113: path.join(RESULTS_DIR, outputName) is served as /results/outputName)
ResultFile(url) == [dir |-> "RESULTS_DIR", name |-> url.name]

SweepKeeps == {"pending", "processing", "waiting_input", "failed", "cancelled"}

\* C40: a cleanup sweep removes from the job store exactly the jobs whose
\* result is non-null and whose result file no longer exists; it neither
\* removes nor modifies a job that is pending, processing, waiting_input,
\* failed or cancelled, and it removes no running-process table entry.
C40_SweepRemovesExactlyStaleResults ==
    [][lastOp'.op = "cleanup" =>
          /\ \A j \in DOMAIN jobs :
                 jobs[j].status # "removed" =>
                     /\ (jobs'[j].status = "removed")
                            <=> /\ jobs[j].result # NullUrl
                                /\ ResultFile(jobs[j].result) \notin lastOp'.present
                     /\ jobs[j].status \in SweepKeeps => jobs'[j] = jobs[j]
          /\ runningProcs \subseteq runningProcs']_vars

====
